---- MODULE Spec2Model ----
(***************************************************************************)
(* The session-overlap correlator of the BattleMetrics bot                 *)
(* (src/util/correlate.py, called from the correlate command of            *)
(* src/main.py).                                                           *)
(*                                                                         *)
(* One correlation request is modelled as the state machine                *)
(*   fetch (lines 12-16, one step per player of player_ids)                *)
(*   merge (lines 21-58, one step per executed body of the innermost loop) *)
(*   done  (line 60, the list is returned)                                 *)
(* and the request may then be run once more on the same provider data.    *)
(* In the page-by-page model of get_player_sessions (lines 62-98) the fetch *)
(* of one player is a call, one step per HTTP request, and a return.        *)
(* Two concurrent requests are coroutines of one event loop: a step of one  *)
(* runs from an await to the next.                                          *)
(* The pagination views, monitor_loop and the search command of src/main.py *)
(* have their own specifications below.                                     *)
(*                                                                         *)
(* Python lists are sequences; Python's 0-based indexes i, j are the       *)
(* 1-based indexes i+1, j+1 here.  A datetime is the integer instant it    *)
(* denotes, a timedelta the difference of two instants.                    *)
(***************************************************************************)
EXTENDS Integers, Sequences, FiniteSets

VARIABLES
    provider,              \* what the BattleMetrics API holds: player id -> list of session objects
    player_ids,            \* the request's player_ids argument
    end_time,              \* line 9
    all_sessions,          \* line 12: dict player id -> fetched list
    overlapping_sessions,  \* line 21: the growing list of overlap records
    pc,                    \* "fetch" | "merge" | "done"
    fetch_i,               \* index of the next player to fetch (loop of line 13)
    pos,                   \* <<i, j, k1, k2>>: the inner-loop body to execute next, or Done
    last,                  \* the inner-loop body executed most recently, or Done
    run,                   \* 1 for the first request, 2 for the repeated one
    first_result,          \* what the first request returned (set by its return)
    jwt,                   \* the request's jwt argument (the command's access_token), or Null
    start_time,            \* line 10
    frame,                 \* the running call of get_player_sessions: its arguments and locals
    http_log,              \* the requests (line 81) of the latest fetch of a player and their answers
    failed,                \* the players whose list in all_sessions is the [] of line 85
    failures_left,         \* how many more non-200 answers the API will give
    calls,                 \* two concurrent requests: request -> where its coroutine stands, how often it was resumed
    locals,                \* two concurrent requests: namespace -> the values of the local names
    view,                  \* a pagination view (main.py): len(pages), current_page, buttons
    battlemetrics_ids,     \* main.py line 68: the set of monitored player ids
    user_status,           \* main.py line 67: player id -> stored online flag and server id
    online_server,         \* what the API reports: player id -> id of the server the player is on, "0" offline
    loop,                  \* monitor_loop (main.py lines 552-580): where the running tick stands
    notice,                \* the latest evaluation of a player by monitor_loop and what it did
    seen_ids,              \* main.py line 66: the global set of player ids already listed
    directory,             \* what the API's player search holds: player id -> name, servers
    searches               \* the running search commands (main.py lines 423-504)

vars == <<provider, player_ids, end_time, all_sessions, overlapping_sessions,
          pc, fetch_i, pos, last, run, first_result,
          jwt, start_time, frame, http_log, failed, failures_left,
          calls, locals,
          view, battlemetrics_ids, user_status, online_server, loop, notice,
          seen_ids, directory, searches>>

\* the state of one request
request_state == <<player_ids, end_time, all_sessions, overlapping_sessions,
                   pc, fetch_i, pos, last, run, first_result,
                   jwt, start_time, frame, http_log, failed, failures_left>>

\* the state of the two concurrent requests
two_state == <<calls, locals>>

\* the state of the bot outside the correlation: views, monitoring, search
bot_state == <<view, battlemetrics_ids, user_status, online_server, loop, notice,
               seen_ids, directory, searches>>

\* no view, monitor tick or search is modelled
BotIdle ==
    /\ view = <<>>
    /\ battlemetrics_ids = {}
    /\ user_status = <<>>
    /\ online_server = <<>>
    /\ loop = <<>>
    /\ notice = <<>>
    /\ seen_ids = {}
    /\ directory = <<>>
    /\ searches = <<>>

\* the state of the page-by-page fetch
fetch_state == <<jwt, start_time, frame, http_log, failed, failures_left>>

----------------------------------------------------------------------------
(* Bounds of the model *)

MaxPlayers == 3
MaxTotal == 3
MaxTime == 3
PageSize == 1
MaxFailures == 2
MaxRecords == 21

----------------------------------------------------------------------------
(* Values *)

\* JSON null (Python None), written as the empty tuple so that it compares with a timestamp
Null == <<>>
\* No position: the loops are over (or not entered yet)
Done == <<>>

PlayerIds == {"A", "B", "C"}
Servers == {"s1", "s2"}
Times == 0..MaxTime

Max(a, b) == IF a >= b THEN a ELSE b
Min(a, b) == IF a <= b THEN a ELSE b
Range(s) == {s[k] : k \in DOMAIN s}

\* An ISO-8601 timestamp as the API writes it ("...Z"): the instant and the zone suffix.
IsoZ(t) == <<t, "Z">>

\* str.replace('Z', '+00:00') of lines 29, 30, 34, 35
replace_Z(ts) == <<ts[1], IF ts[2] = "Z" THEN "+00:00" ELSE ts[2]>>

\* datetime.fromisoformat of lines 29, 30, 34, 35: an aware datetime, compared by instant
fromisoformat(ts) == ts[1]

\* A session object of the API's JSON, with the fields lines 29-36 read;
\* stop is a timestamp or Null.
SessionObject(srv, start, stop) ==
    [attributes |-> [start |-> start, stop |-> stop],
     relationships |-> [server |-> [data |-> [id |-> srv]]]]

\* Sessions the API can hold when the request is made at time MaxTime: all
\* started before, closed ones (start < stop) stopped before, active ones have
\* stop null.
Sessions ==
    {SessionObject(q[1], IsoZ(q[2]), IsoZ(q[3])) :
        q \in {r \in Servers \X Times \X Times : r[2] < r[3] /\ r[3] < MaxTime}}
    \cup {SessionObject(q[1], IsoZ(q[2]), Null) :
        q \in {r \in Servers \X Times : r[2] < MaxTime}}

\* Session objects that lack a field lines 29-36 read: no 'start' key in the
\* attributes, a null start, no 'server' key in the relationships.
MalformedSessions ==
    {[attributes |-> [stop |-> Null],
      relationships |-> [server |-> [data |-> [id |-> "s1"]]]],
     [attributes |-> [start |-> Null, stop |-> Null],
      relationships |-> [server |-> [data |-> [id |-> "s1"]]]],
     [attributes |-> [start |-> IsoZ(0), stop |-> Null],
      relationships |-> <<>>]}

\* What the API may hold when records can be malformed (one server)
SessionsOrMalformed ==
    {s \in Sessions : s.relationships.server.data.id = "s1"} \cup MalformedSessions

SessionOrMalformedSeqs(n) == UNION {[1..k -> SessionsOrMalformed] : k \in 0..n}

SessionSeqs(n) == UNION {[1..k -> Sessions] : k \in 0..n}

\* Player lists.  The code compares player ids only for equality (dict key of
\* line 16, membership test of line 49), so lists are taken up to renaming: the
\* ids appear for the first time in the order A, B, C.  Lists that name an id
\* more than once are included.
FirstUse(l) ==
    \A k \in DOMAIN l :
        /\ l[k] = "B" => \E m \in 1..(k - 1) : l[m] = "A"
        /\ l[k] = "C" => \E m \in 1..(k - 1) : l[m] = "B"

PlayerLists ==
    {l \in UNION {[1..n -> PlayerIds] : n \in 1..MaxPlayers} : FirstUse(l)}

----------------------------------------------------------------------------
(* get_player_sessions, as far as the merge needs it: the provider's list *)

----------------------------------------------------------------------------
(* get_player_sessions page by page (lines 62-98) *)

\* The access token the command may be given; a string, written as a tuple so
\* that it compares with Null
Token == <<"access_token">>
Tokens == {Null, Token}

\* Python truth of an optional string
truthy(x) == x # Null

\* The request URL, as far as its query differs between requests:
\* <<filter[players], page cursor, access_token or Null>>
url_of(player_id, page, token) == <<player_id, page, token>>

\* lines 64-74: the URL of the first page
first_url(player_id, a_jwt, ignore_jwt) ==
    url_of(player_id, 1, IF truthy(a_jwt) /\ ~ignore_jwt THEN a_jwt ELSE Null)

\* lines 92-93: the token is appended to the next link
add_token(url, a_jwt, ignore_jwt) ==
    IF truthy(url) /\ truthy(a_jwt) /\ ~ignore_jwt
    THEN url_of(url[1], url[2], a_jwt)
    ELSE url

\* lines 62-75: the arguments and locals of a call at the loop of line 77;
\* attempt counts the calls made for the one fetch (1, and 2 for the call of line 83)
new_frame(player_id, a_jwt, ignore_jwt, attempt) ==
    [jwt |-> a_jwt,
     ignore_jwt |-> ignore_jwt,
     url |-> first_url(player_id, a_jwt, ignore_jwt),
     sessions |-> <<>>,
     count |-> 1,
     attempt |-> attempt]

\* no call of get_player_sessions is running
NoFrame ==
    [jwt |-> Null, ignore_jwt |-> FALSE, url |-> Null, sessions |-> <<>>,
     count |-> 0, attempt |-> 0]

\* The API's pages of a player's session list
pages(list) == IF list = <<>> THEN 1 ELSE (Len(list) + PageSize - 1) \div PageSize

page_data(list, k) == SubSeq(list, (k - 1) * PageSize + 1, Min(k * PageSize, Len(list)))

\* How the API ends the chain of pages: the last page has no 'links' entry, or
\* its 'links' has no 'next'
LinkStyles == {"no_links", "no_next"}

\* response.json() of line 87 for a 200 answer to the request of url
response_json(prov, url, style) ==
    LET list == prov[url[1]]
        k == url[2]
    IN IF k < pages(list)
       THEN [data |-> page_data(list, k),
             links |-> [next |-> url_of(url[1], k + 1, Null)]]
       ELSE IF style = "no_next"
       THEN [data |-> page_data(list, k),
             links |-> [prev |-> url_of(url[1], k - 1, Null)]]
       ELSE [data |-> page_data(list, k)]

\* dict.get(key) of line 91
dict_get(d, key) == IF key \in DOMAIN d THEN d[key] ELSE Null

\* Mutant of extend: the page is put in front
extend_in_front(sessions, data) == data \o sessions

\* line 88: sessions.extend(data['data'])
extend(sessions, data) == sessions \o data

\* lines 87-96: the frame after a 200 answer
after_page(f, data) ==
    IF "links" \in DOMAIN data
    THEN [f EXCEPT !.sessions = extend(@, data.data),
                   !.url = add_token(dict_get(data.links, "next"), f.jwt, f.ignore_jwt),
                   !.count = @ + 1]
    ELSE [f EXCEPT !.sessions = extend(@, data.data),
                   !.url = Null]

\* Mutant of retry_frame: the retry goes on with the list of the first call
retry_frame_keeps_sessions(f, player_id) ==
    [new_frame(player_id, Null, TRUE, f.attempt + 1) EXCEPT !.sessions = f.sessions]

\* Mutant of retry_frame: the retry is made like the first call
retry_frame_with_token(f, player_id) ==
    new_frame(player_id, f.jwt, f.ignore_jwt, f.attempt + 1)

\* line 83: the call made on a 401; jwt is not passed on and is None
retry_frame(f, player_id) ==
    new_frame(player_id, Null, TRUE, f.attempt + 1)

\* Mutant of failure_result: the first record fetched is returned
failure_result_first(sessions) == IF sessions = <<>> THEN <<>> ELSE <<sessions[1]>>

\* Mutant of failure_result: the pages fetched so far are returned
failure_result_partial(sessions) == sessions

\* line 85
failure_result(sessions) == <<>>

\* an entry of the log of requests: the URL requested, by which call, and the
\* status of the answer
log_entry(f, status) == [url |-> f.url, attempt |-> f.attempt, status |-> status]

\* Statuses of line 84 other than 200
FailureStatuses == {401, 500}

\* The window lengths the command is given (days)
DaysBack == {1, MaxTime}

get_player_sessions(prov, player_id) == prov[player_id]

----------------------------------------------------------------------------
(* The merge of find_overlapping_sessions *)

start_of(session) == fromisoformat(replace_Z(session.attributes.start))

\* Mutant of stop_of: an active session is given no length
stop_of_active_empty(session, et) ==
    IF session.attributes.stop # Null
    THEN fromisoformat(replace_Z(session.attributes.stop))
    ELSE start_of(session)

stop_of(session, et) ==
    IF session.attributes.stop # Null
    THEN fromisoformat(replace_Z(session.attributes.stop))
    ELSE et

server_of(session) == session.relationships.server.data.id

\* Mutant of overlaps: the servers are not compared
overlaps_any_server(session1, session2, et) ==
    Max(start_of(session1), start_of(session2))
        < Min(stop_of(session1, et), stop_of(session2, et))

\* Mutant of overlaps: <= for <
overlaps_non_strict(session1, session2, et) ==
    /\ server_of(session1) = server_of(session2)
    /\ Max(start_of(session1), start_of(session2))
         <= Min(stop_of(session1, et), stop_of(session2, et))

\* line 38
overlaps(session1, session2, et) ==
    /\ server_of(session1) = server_of(session2)
    /\ Max(start_of(session1), start_of(session2))
         < Min(stop_of(session1, et), stop_of(session2, et))

\* Mutant of existing_overlap: the lookup compares the start with the stop and finds nothing
existing_overlap_never(recs, srv, ostart, ostop) ==
    LET hits == {k \in DOMAIN recs : /\ recs[k].server_id = srv
                                     /\ recs[k].start = ostop
                                     /\ recs[k].stop = ostop}
    IN IF hits = {} THEN 0 ELSE CHOOSE k \in hits : \A m \in hits : k <= m

\* lines 43-46: index of the first record with the key, 0 when there is none
existing_overlap(recs, srv, ostart, ostop) ==
    LET hits == {k \in DOMAIN recs : /\ recs[k].server_id = srv
                                     /\ recs[k].start = ostart
                                     /\ recs[k].stop = ostop}
    IN IF hits = {} THEN 0 ELSE CHOOSE k \in hits : \A m \in hits : k <= m

\* Mutant of new_record: the duration is taken the wrong way round
new_record_negative_duration(srv, ostart, ostop, p1, p2) ==
    [server_id |-> srv,
     start |-> ostart,
     stop |-> ostop,
     duration |-> ostart - ostop,
     players |-> <<p1, p2>>]

\* lines 52-58
new_record(srv, ostart, ostop, p1, p2) ==
    [server_id |-> srv,
     start |-> ostart,
     stop |-> ostop,
     duration |-> ostop - ostart,
     players |-> <<p1, p2>>]

\* Mutant of join_record: the player is not added
join_record_forgets(rec, p1, p2) == rec

\* lines 48-50
join_record(rec, p1, p2) ==
    IF p2 \notin Range(rec.players)
    THEN [rec EXCEPT !.players = Append(@, p2)]
    ELSE rec

\* Mutant of merge_pair: overlap_start is the min of the starts
merge_pair_min_start(recs, p1, p2, session1, session2, et) ==
    IF overlaps(session1, session2, et)
    THEN LET srv == server_of(session1)
             ostart == Min(start_of(session1), start_of(session2))
             ostop == Min(stop_of(session1, et), stop_of(session2, et))
             k == existing_overlap(recs, srv, ostart, ostop)
         IN IF k # 0
            THEN [recs EXCEPT ![k] = join_record(recs[k], p1, p2)]
            ELSE Append(recs, new_record(srv, ostart, ostop, p1, p2))
    ELSE recs

\* Mutant of merge_pair: overlap_stop is the max of the stops
merge_pair_max_stop(recs, p1, p2, session1, session2, et) ==
    IF overlaps(session1, session2, et)
    THEN LET srv == server_of(session1)
             ostart == Max(start_of(session1), start_of(session2))
             ostop == Max(stop_of(session1, et), stop_of(session2, et))
             k == existing_overlap(recs, srv, ostart, ostop)
         IN IF k # 0
            THEN [recs EXCEPT ![k] = join_record(recs[k], p1, p2)]
            ELSE Append(recs, new_record(srv, ostart, ostop, p1, p2))
    ELSE recs

\* lines 29-58: one execution of the innermost loop body
merge_pair(recs, p1, p2, session1, session2, et) ==
    IF overlaps(session1, session2, et)
    THEN LET srv == server_of(session1)
             ostart == Max(start_of(session1), start_of(session2))
             ostop == Min(stop_of(session1, et), stop_of(session2, et))
             k == existing_overlap(recs, srv, ostart, ostop)
         IN IF k # 0
            THEN [recs EXCEPT ![k] = join_record(recs[k], p1, p2)]
            ELSE Append(recs, new_record(srv, ostart, ostop, p1, p2))
    ELSE recs

\* Mutant of range_j: range(i, len(player_ids))
range_j_from_i(i, n) == i..n

\* line 24: range(i + 1, len(player_ids))
range_j(i, n) == (i + 1)..n

\* lines 23-33: the executions of the innermost body, <<i, j, k1, k2>>
positions(pids, sess) ==
    UNION {UNION {{<<i, j, k1, k2>> : k1 \in 1..Len(sess[pids[i]]),
                                     k2 \in 1..Len(sess[pids[j]])}
                  : j \in range_j(i, Len(pids))}
           : i \in 1..Len(pids)}

\* The order in which the nested loops of lines 23, 24, 28, 33 reach the bodies.
before(p, q) ==
    \/ p[1] < q[1]
    \/ p[1] = q[1] /\ p[2] < q[2]
    \/ p[1] = q[1] /\ p[2] = q[2] /\ p[3] < q[3]
    \/ p[1] = q[1] /\ p[2] = q[2] /\ p[3] = q[3] /\ p[4] < q[4]

earliest(P) ==
    IF P = {} THEN Done ELSE CHOOSE p \in P : \A q \in P : p = q \/ before(p, q)

first_pos(pids, sess) == earliest(positions(pids, sess))

next_pos(pids, sess, p) == earliest({q \in positions(pids, sess) : before(p, q)})

\* The body at position p applied to the records so far.
body_at(recs, pids, sess, et, p) ==
    merge_pair(recs, pids[p[1]], pids[p[2]],
               sess[pids[p[1]]][p[3]], sess[pids[p[2]]][p[4]], et)

\* lines 29-31 and 34-36 on one session object: the subscripts find their keys
\* and .replace is called on a string
readable(session) ==
    /\ "start" \in DOMAIN session.attributes
    /\ session.attributes.start # Null
    /\ "stop" \in DOMAIN session.attributes
    /\ "server" \in DOMAIN session.relationships

\* lines 28-36: the reads of session objects, <<i, j, k1, 0>> for session1
\* (lines 29-31, once per iteration of the loop of line 28) and <<i, j, k1, k2>>
\* for session2 (lines 34-36)
reads(pids, sess) ==
    positions(pids, sess)
    \cup UNION {UNION {{<<i, j, k1, 0>> : k1 \in 1..Len(sess[pids[i]])}
                       : j \in range_j(i, Len(pids))}
                : i \in 1..Len(pids)}

session_read(pids, sess, e) ==
    IF e[4] = 0 THEN sess[pids[e[1]]][e[3]] ELSE sess[pids[e[2]]][e[4]]

\* The first read that raises (KeyError, AttributeError), Done when none does
first_raise(pids, sess) ==
    earliest({e \in reads(pids, sess) : ~readable(session_read(pids, sess, e))})

\* The body at p is reached: no read up to it raises
reached(pids, sess, p) ==
    IF first_raise(pids, sess) = Done THEN TRUE
    ELSE IF p = Done THEN FALSE
    ELSE p # first_raise(pids, sess) /\ before(p, first_raise(pids, sess))

\* line 12
empty_dict == [p \in {} |-> <<>>]

\* line 16: all_sessions[player_id] = ...
dict_set(d, key, value) ==
    [p \in DOMAIN d \cup {key} |-> IF p = key THEN value ELSE d[p]]

\* Mutant of new_overlapping_sessions: the list of the call before is kept
new_overlapping_sessions_kept(old) == old

\* line 21: the name overlapping_sessions is bound to a new empty list
new_overlapping_sessions(old) == <<>>

\* find_overlapping_sessions as a function of its inputs: the list returned for
\* the player list pids, the provider data prov and the window end et.
RECURSIVE fetch_all(_, _, _, _)
fetch_all(d, pids, prov, k) ==
    IF k > Len(pids) THEN d
    ELSE fetch_all(dict_set(d, pids[k], get_player_sessions(prov, pids[k])), pids, prov, k + 1)

RECURSIVE merge_from(_, _, _, _, _)
merge_from(recs, pids, sess, et, p) ==
    IF p = Done THEN recs
    ELSE merge_from(body_at(recs, pids, sess, et, p), pids, sess, et, next_pos(pids, sess, p))

find_overlapping_sessions(pids, prov, et) ==
    LET sess == fetch_all(empty_dict, pids, prov, 1)
    IN merge_from(new_overlapping_sessions(<<>>), pids, sess, et, first_pos(pids, sess))

----------------------------------------------------------------------------
(* The state machine of one request, and its repetition *)

\* Two concurrent requests
Requests == {1, 2}

\* Mutant of namespace: the names are module globals, one namespace for all calls
namespace_of_module(r) == 1

\* lines 12, 21, 63-75: all_sessions, overlapping_sessions and the names of
\* get_player_sessions are local names, bound in the namespace of the call
namespace(r) == r

\* the local names of a call, unbound
\* (a clock not yet read is written 0; no line reads it before line 9 binds it)
Unbound ==
    [end_time |-> 0, start_time |-> 0, all_sessions |-> empty_dict,
     overlapping_sessions |-> <<>>, frame |-> NoFrame]

NoCalls ==
    [r \in Requests |->
        [player_ids |-> <<>>, pc |-> "none", fetch_i |-> 0, result |-> <<>>, resumed |-> 0]]
NoLocals == [r \in Requests |-> Unbound]

\* lines 23-26: all_sessions[player_ids[i]] and all_sessions[player_ids[j]]
\* find their keys in every pair i < j the loops visit; a list of fewer than
\* two players has no pair and no lookup is made
keys_found(pids, sess) ==
    IF Len(pids) < 2 THEN TRUE ELSE Range(pids) \subseteq DOMAIN sess

\* lines 21-60, run without an await
merge(pids, sess, et) ==
    merge_from(new_overlapping_sessions(<<>>), pids, sess, et, first_pos(pids, sess))

\* How often the list l names the id p
count(l, p) == Cardinality({k \in DOMAIN l : l[k] = p})

\* The longest list the provider may hold for an id named c times when budget
\* session objects may still be fetched
share(budget, c) == IF c = 0 THEN 0 ELSE budget \div c

\* The request fetches at most MaxTotal session objects in all (an id named
\* twice is fetched twice); ids the request does not name hold nothing.  Server
\* ids are compared only for equality (lines 38, 44), so they are taken up to
\* renaming: the first session fetched, if any, is on s1.
Init ==
    /\ player_ids \in PlayerLists
    /\ LET ca == count(player_ids, "A")
           cb == count(player_ids, "B")
           cc == count(player_ids, "C")
       IN \E sa \in SessionSeqs(share(MaxTotal, ca)) :
          \E sb \in SessionSeqs(share(MaxTotal - ca * Len(sa), cb)) :
          \E sc \in SessionSeqs(share(MaxTotal - ca * Len(sa) - cb * Len(sb), cc)) :
              /\ IF sa \o sb \o sc = <<>> THEN TRUE
                 ELSE server_of((sa \o sb \o sc)[1]) = "s1"
              /\ provider = [p \in PlayerIds |->
                               IF p = "A" THEN sa ELSE IF p = "B" THEN sb ELSE sc]
    /\ end_time = MaxTime
    /\ all_sessions = empty_dict
    /\ overlapping_sessions = <<>>
    /\ pc = "fetch"
    /\ fetch_i = 1
    /\ pos = Done
    /\ last = Done
    /\ run = 1
    /\ first_result = <<>>
    /\ jwt = Null
    /\ start_time = end_time - MaxTime
    /\ frame = NoFrame
    /\ http_log = <<>>
    /\ failed = {}
    /\ failures_left = 0
    /\ calls = NoCalls
    /\ locals = NoLocals
    /\ BotIdle

\* lines 18-28: the fetch loop is over, the list is created and the loops are entered
StartMerge ==
    /\ pc = "fetch"
    /\ fetch_i > Len(player_ids)
    /\ overlapping_sessions' = new_overlapping_sessions(overlapping_sessions)
    /\ pos' = first_pos(player_ids, all_sessions)
    /\ last' = Done
    /\ pc' = "merge"
    /\ UNCHANGED <<provider, player_ids, end_time, all_sessions, fetch_i, run,
                   first_result>>
    /\ UNCHANGED fetch_state
    /\ UNCHANGED two_state
    /\ UNCHANGED bot_state

\* lines 29-58: one execution of the innermost loop body, and the loop headers
\* up to the next one
MergeStep ==
    /\ pc = "merge"
    /\ pos # Done
    /\ reached(player_ids, all_sessions, pos)
    /\ overlapping_sessions' =
           body_at(overlapping_sessions, player_ids, all_sessions, end_time, pos)
    /\ last' = pos
    /\ pos' = next_pos(player_ids, all_sessions, pos)
    /\ UNCHANGED <<provider, player_ids, end_time, all_sessions, pc, fetch_i, run,
                   first_result>>
    /\ UNCHANGED fetch_state
    /\ UNCHANGED two_state
    /\ UNCHANGED bot_state

\* line 60
Return ==
    /\ pc = "merge"
    /\ pos = Done
    /\ reached(player_ids, all_sessions, pos)
    /\ pc' = "done"
    /\ first_result' = IF run = 1 THEN overlapping_sessions ELSE first_result
    /\ UNCHANGED <<provider, player_ids, end_time, all_sessions,
                   overlapping_sessions, fetch_i, pos, last, run>>
    /\ UNCHANGED fetch_state
    /\ UNCHANGED two_state
    /\ UNCHANGED bot_state

\* what datetime.now(pytz.UTC) of line 9 reads when a later call is made: the
\* time the first call read, or a later one
ClockReadings == {MaxTime, MaxTime + 1}

\* The same request is made again (lines 9-12 of the second call): the
\* provider holds the same data, the clock is read again and the window is as
\* long as before.
Again ==
    /\ pc = "done"
    /\ run = 1
    /\ run' = 2
    /\ \E now \in ClockReadings :
          /\ end_time' = now
          /\ start_time' = now - (end_time - start_time)
    /\ all_sessions' = empty_dict
    /\ fetch_i' = 1
    /\ pc' = "fetch"
    /\ pos' = Done
    /\ last' = Done
    /\ UNCHANGED <<provider, player_ids, overlapping_sessions, first_result>>
    /\ UNCHANGED <<jwt, frame, http_log, failed, failures_left>>
    /\ UNCHANGED two_state
    /\ UNCHANGED bot_state

----------------------------------------------------------------------------
(* The request with the fetch of each player page by page *)

\* Sessions on one server: two that are over when the last day begins, and an
\* active one
SessionsOnS1 ==
    {SessionObject("s1", IsoZ(0), IsoZ(1)),
     SessionObject("s1", IsoZ(0), IsoZ(2)),
     SessionObject("s1", IsoZ(1), Null)}

SessionOnS1Seqs(n) == UNION {[1..k -> SessionsOnS1] : k \in 0..n}

\* As Init, on one server; the command may be given a token and a window
\* length, and the API may answer up to MaxFailures requests with a status
\* other than 200.
InitFetch ==
    /\ player_ids \in PlayerLists
    /\ LET ca == count(player_ids, "A")
           cb == count(player_ids, "B")
           cc == count(player_ids, "C")
       IN \E sa \in SessionOnS1Seqs(share(MaxTotal, ca)) :
          \E sb \in SessionOnS1Seqs(share(MaxTotal - ca * Len(sa), cb)) :
          \E sc \in SessionOnS1Seqs(share(MaxTotal - ca * Len(sa) - cb * Len(sb), cc)) :
              provider = [p \in PlayerIds |->
                            IF p = "A" THEN sa ELSE IF p = "B" THEN sb ELSE sc]
    /\ end_time = MaxTime
    /\ \E days_back \in DaysBack : start_time = end_time - days_back
    /\ jwt \in Tokens
    /\ all_sessions = empty_dict
    /\ overlapping_sessions = <<>>
    /\ pc = "fetch"
    /\ fetch_i = 1
    /\ pos = Done
    /\ last = Done
    /\ run = 1
    /\ first_result = <<>>
    /\ frame = NoFrame
    /\ http_log = <<>>
    /\ failed = {}
    /\ failures_left = MaxFailures
    /\ calls = NoCalls
    /\ locals = NoLocals
    /\ BotIdle

\* lines 13-16 and 62-75: get_player_sessions is called for the next player
\* (find_overlapping_sessions is called without ignore_jwt, main.py line 529)
Call ==
    /\ pc = "fetch"
    /\ fetch_i <= Len(player_ids)
    /\ frame' = new_frame(player_ids[fetch_i], jwt, FALSE, 1)
    /\ http_log' = <<>>
    /\ pc' = "request"
    /\ UNCHANGED <<provider, player_ids, end_time, all_sessions, overlapping_sessions,
                   fetch_i, pos, last, run, first_result,
                   jwt, start_time, failed, failures_left>>
    /\ UNCHANGED two_state
    /\ UNCHANGED bot_state

\* lines 77-96: a request answered 200
Respond200 ==
    /\ pc = "request"
    /\ truthy(frame.url)
    /\ \E style \in LinkStyles :
           LET data == response_json(provider, frame.url, style)
           IN /\ frame' = after_page(frame, data)
              /\ http_log' = Append(http_log, log_entry(frame, 200))
    /\ UNCHANGED <<provider, player_ids, end_time, all_sessions, overlapping_sessions,
                   pc, fetch_i, pos, last, run, first_result,
                   jwt, start_time, failed, failures_left>>
    /\ UNCHANGED two_state
    /\ UNCHANGED bot_state

\* lines 77-83: a request answered 401 by a call with ignore_jwt false; the
\* call returns what the call of line 83 returns
Respond401 ==
    /\ pc = "request"
    /\ truthy(frame.url)
    /\ failures_left > 0
    /\ ~frame.ignore_jwt
    /\ frame' = retry_frame(frame, player_ids[fetch_i])
    /\ http_log' = Append(http_log, log_entry(frame, 401))
    /\ failures_left' = failures_left - 1
    /\ UNCHANGED <<provider, player_ids, end_time, all_sessions, overlapping_sessions,
                   pc, fetch_i, pos, last, run, first_result,
                   jwt, start_time, failed>>
    /\ UNCHANGED two_state
    /\ UNCHANGED bot_state

\* lines 77-85 and 16: a request answered with another status than 200 (a 401
\* only when ignore_jwt is true); [] is returned and stored
RespondFail ==
    /\ pc = "request"
    /\ truthy(frame.url)
    /\ failures_left > 0
    /\ \E status \in FailureStatuses :
           /\ status = 401 => frame.ignore_jwt
           /\ http_log' = Append(http_log, log_entry(frame, status))
    /\ all_sessions' = dict_set(all_sessions, player_ids[fetch_i],
                                failure_result(frame.sessions))
    /\ failed' = failed \cup {player_ids[fetch_i]}
    /\ failures_left' = failures_left - 1
    /\ frame' = NoFrame
    /\ fetch_i' = fetch_i + 1
    /\ pc' = "fetch"
    /\ UNCHANGED <<provider, player_ids, end_time, overlapping_sessions,
                   pos, last, run, first_result, jwt, start_time>>
    /\ UNCHANGED two_state
    /\ UNCHANGED bot_state

\* lines 77, 98 and 16: url is None, the loop ends and the list is returned
\* and stored
FetchReturn ==
    /\ pc = "request"
    /\ ~truthy(frame.url)
    /\ all_sessions' = dict_set(all_sessions, player_ids[fetch_i], frame.sessions)
    /\ failed' = failed \ {player_ids[fetch_i]}
    /\ frame' = NoFrame
    /\ fetch_i' = fetch_i + 1
    /\ pc' = "fetch"
    /\ UNCHANGED <<provider, player_ids, end_time, overlapping_sessions,
                   pos, last, run, first_result,
                   jwt, start_time, http_log, failures_left>>
    /\ UNCHANGED two_state
    /\ UNCHANGED bot_state

NextFetch ==
    Call \/ Respond200 \/ Respond401 \/ RespondFail \/ FetchReturn
        \/ StartMerge \/ MergeStep \/ Return

SpecFetch == InitFetch /\ [][NextFetch]_vars

\* The event loop runs the request's coroutine until it returns, and every
\* request of line 81 is answered.
FairSpecFetch == SpecFetch /\ WF_vars(NextFetch)

\* The request whose every HTTP request is answered 200 (Init leaves no failure
\* to happen), made once and then once again
Next == Call \/ Respond200 \/ FetchReturn \/ StartMerge \/ MergeStep \/ Return \/ Again

Spec == Init /\ [][Next]_vars

----------------------------------------------------------------------------
(* Two concurrent requests.  The event loop runs one coroutine at a time, from *)
(* an await to the next: the awaits of lines 15, 19 and 79 (main.py line 529  *)
(* passes the interaction); requests.get of line 81 does not yield.           *)

\* The player lists of the two requests
ListsOfTwo == {<<"A">>, <<"B">>, <<"A", "B">>, <<"B", "A">>}

\* The API's list of a player in this part
ShortSeqs == SessionOnS1Seqs(MaxTotal - 1)

\* The API answers every request 200; no token is given.
InitTwo ==
    /\ provider \in [PlayerIds -> ShortSeqs]
    /\ provider["C"] = <<>>
    /\ \E l1 \in {<<"A">>, <<"A", "B">>}, l2 \in ListsOfTwo :
           calls = [r \in Requests |->
                      [player_ids |-> IF r = 1 THEN l1 ELSE l2,
                       pc |-> "start", fetch_i |-> 1, result |-> <<>>, resumed |-> 0]]
    /\ locals = NoLocals
    /\ BotIdle
    /\ player_ids = <<"A">>
    /\ end_time = MaxTime
    /\ start_time = end_time - MaxTime
    /\ jwt = Null
    /\ all_sessions = empty_dict
    /\ overlapping_sessions = <<>>
    /\ pc = "done"
    /\ fetch_i = 1
    /\ pos = Done
    /\ last = Done
    /\ run = 2
    /\ first_result = <<>>
    /\ frame = NoFrame
    /\ http_log = <<>>
    /\ failed = {}
    /\ failures_left = 0

\* lines 9-15: the call begins, reads the clock and binds end_time, start_time
\* and all_sessions, up to the await of line 15
Begin(r) ==
    /\ calls[r].pc = "start"
    /\ \E now \in ClockReadings :
          locals' = [locals EXCEPT ![namespace(r)].end_time = now,
                                   ![namespace(r)].start_time = now - MaxTime,
                                   ![namespace(r)].all_sessions = empty_dict]
    /\ calls' = [calls EXCEPT ![r].pc = "fetch", ![r].resumed = @ + 1]
    /\ UNCHANGED <<provider, request_state>>
    /\ UNCHANGED bot_state

\* lines 16, 62-79: get_player_sessions is called, up to the await of line 79
CallOf(r) ==
    /\ calls[r].pc = "fetch"
    /\ locals' = [locals EXCEPT ![namespace(r)].frame =
                      new_frame(calls[r].player_ids[calls[r].fetch_i], Null, FALSE, 1)]
    /\ calls' = [calls EXCEPT ![r].pc = "page", ![r].resumed = @ + 1]
    /\ UNCHANGED <<provider, request_state>>
    /\ UNCHANGED bot_state

\* lines 81-96 and then either line 77-79 (another page, await of line 79) or
\* lines 98, 16 and 13-15 (await of line 15) or 18-19 (await of line 19)
PageOf(r) ==
    /\ calls[r].pc = "page"
    /\ truthy(locals[namespace(r)].frame.url)
    /\ \E style \in LinkStyles :
         LET mine == locals[namespace(r)]
             f == after_page(mine.frame, response_json(provider, mine.frame.url, style))
             player_id == calls[r].player_ids[calls[r].fetch_i]
         IN IF truthy(f.url)
            THEN /\ locals' = [locals EXCEPT ![namespace(r)].frame = f]
                 /\ calls' = [calls EXCEPT ![r].resumed = @ + 1]
            ELSE /\ locals' = [locals EXCEPT
                        ![namespace(r)].frame = f,
                        ![namespace(r)].all_sessions = dict_set(@, player_id, f.sessions)]
                 /\ calls' = [calls EXCEPT
                        ![r].resumed = @ + 1,
                        ![r].fetch_i = @ + 1,
                        ![r].pc = IF calls[r].fetch_i < Len(calls[r].player_ids)
                                  THEN "fetch" ELSE "merge"]
    /\ UNCHANGED <<provider, request_state>>
    /\ UNCHANGED bot_state

\* lines 21-60: the merge and the return; a KeyError of lines 25-26 ends the call
MergeOf(r) ==
    /\ calls[r].pc = "merge"
    /\ LET mine == locals[namespace(r)]
       IN IF keys_found(calls[r].player_ids, mine.all_sessions)
          THEN LET recs == merge(calls[r].player_ids, mine.all_sessions, mine.end_time)
               IN /\ locals' = [locals EXCEPT ![namespace(r)].overlapping_sessions = recs]
                  /\ calls' = [calls EXCEPT ![r].pc = "done", ![r].result = recs,
                                             ![r].resumed = @ + 1]
          ELSE /\ locals' = [locals EXCEPT ![namespace(r)].overlapping_sessions = <<>>]
               /\ calls' = [calls EXCEPT ![r].pc = "raised", ![r].resumed = @ + 1]
    /\ UNCHANGED <<provider, request_state>>
    /\ UNCHANGED bot_state

NextTwo == \E r \in Requests : Begin(r) \/ CallOf(r) \/ PageOf(r) \/ MergeOf(r)

SpecTwo == InitTwo /\ [][NextTwo]_vars

----------------------------------------------------------------------------
(* The request on data with malformed session objects *)

InitMalformed ==
    /\ player_ids \in PlayerLists
    /\ LET ca == count(player_ids, "A")
           cb == count(player_ids, "B")
           cc == count(player_ids, "C")
       IN \E sa \in SessionOrMalformedSeqs(share(MaxTotal, ca)) :
          \E sb \in SessionOrMalformedSeqs(share(MaxTotal - ca * Len(sa), cb)) :
          \E sc \in SessionOrMalformedSeqs(share(MaxTotal - ca * Len(sa) - cb * Len(sb), cc)) :
              provider = [p \in PlayerIds |->
                            IF p = "A" THEN sa ELSE IF p = "B" THEN sb ELSE sc]
    /\ end_time = MaxTime
    /\ all_sessions = empty_dict
    /\ overlapping_sessions = <<>>
    /\ pc = "fetch"
    /\ fetch_i = 1
    /\ pos = Done
    /\ last = Done
    /\ run = 1
    /\ first_result = <<>>
    /\ jwt = Null
    /\ start_time = end_time - MaxTime
    /\ frame = NoFrame
    /\ http_log = <<>>
    /\ failed = {}
    /\ failures_left = 0
    /\ calls = NoCalls
    /\ locals = NoLocals
    /\ BotIdle

\* lines 29-31, 34-36: a subscript or .replace raises; nothing in
\* find_overlapping_sessions catches it and the call ends without a result
Raise ==
    /\ pc = "merge"
    /\ ~reached(player_ids, all_sessions, pos)
    /\ pc' = "raised"
    /\ UNCHANGED <<provider, player_ids, end_time, all_sessions,
                   overlapping_sessions, fetch_i, pos, last, run, first_result>>
    /\ UNCHANGED fetch_state
    /\ UNCHANGED two_state
    /\ UNCHANGED bot_state

NextMalformed == Call \/ Respond200 \/ FetchReturn \/ StartMerge \/ MergeStep \/ Return \/ Again \/ Raise

SpecMalformed == InitMalformed /\ [][NextMalformed]_vars

----------------------------------------------------------------------------
(* The bot outside the correlation (src/main.py) *)

\* the state of the correlation
correlate_state == <<provider, request_state, two_state>>

\* no correlation request is modelled
CorrelateIdle ==
    /\ provider = [p \in PlayerIds |-> <<>>]
    /\ player_ids = <<"A">>
    /\ end_time = MaxTime
    /\ start_time = 0
    /\ jwt = Null
    /\ all_sessions = empty_dict
    /\ overlapping_sessions = <<>>
    /\ pc = "done"
    /\ fetch_i = 1
    /\ pos = Done
    /\ last = Done
    /\ run = 2
    /\ first_result = <<>>
    /\ frame = NoFrame
    /\ http_log = <<>>
    /\ failed = {}
    /\ failures_left = 0
    /\ calls = NoCalls
    /\ locals = NoLocals

----------------------------------------------------------------------------
(* BasePaginationView (main.py lines 79-129), built by the correlate command *)

\* main.py line 144
items_per_page == 5

\* main.py line 152: math.ceil(total_sessions / items_per_page)
total_pages(total_sessions) == (total_sessions + items_per_page - 1) \div items_per_page

Buttons == {"rewind", "previous_page", "next_page", "fast_forward"}

\* lines 95 and 97: button.emoji in [...], for the button the decorator of
\* lines 102, 108, 115, 122 gave the emoji of one of emojis. button.emoji is the
\* library's object and the list holds strings: the test holds only where that
\* object compares equal to a string (v.emoji_eq_str; discord.PartialEmoji
\* compares unequal to every string).
emoji_in(v, button, emojis) == v.emoji_eq_str /\ button \in emojis

\* lines 91-100: update_buttons over self.children, as the view with the new
\* set of disabled buttons; a button neither test of lines 95 and 97 matches
\* keeps its disabled value
update_buttons(v) ==
    [v EXCEPT !.disabled =
        IF Len(v.pages) <= 1 THEN v.children
        ELSE {button \in v.children :
                 IF emoji_in(v, button, {"rewind", "previous_page"})
                 THEN v.current_page = 0
                 ELSE IF emoji_in(v, button, {"next_page", "fast_forward"})
                      THEN v.current_page = Len(v.pages) - 1
                      ELSE button \in v.disabled}]

\* the view showing page k after button b was handled; shown is the page of
\* the embed the message displays
turned(v, k, b) ==
    [update_buttons([v EXCEPT !.current_page = k]) EXCEPT !.shown = k, !.pressed = b]

\* lines 149-157: create_embed_pages, each page as the number of records on it
create_embed_pages(total_sessions) ==
    [page_num \in 1..total_pages(total_sessions) |->
        IF page_num * items_per_page <= total_sessions
        THEN items_per_page
        ELSE total_sessions - (page_num - 1) * items_per_page]

\* lines 84-89: __init__; the four decorated buttons are the children, none
\* disabled before update_buttons
new_view(the_pages, eq_str) ==
    update_buttons([pages |-> the_pages, current_page |-> 0,
                    children |-> Buttons, disabled |-> {},
                    emoji_eq_str |-> eq_str,
                    shown |-> 0, pressed |-> "none"])

\* lines 128-129: on_timeout, self.clear_items()
on_timeout(v) == [v EXCEPT !.children = {}, !.disabled = {}]

\* lines 103-106
rewind(v) == turned(v, 0, "rewind")

\* Mutant of previous_page: the test of line 110 is left out
previous_page_unguarded(v) == turned(v, v.current_page - 1, "previous_page")

\* lines 109-113
previous_page(v) ==
    IF v.current_page > 0
    THEN turned(v, v.current_page - 1, "previous_page")
    ELSE [v EXCEPT !.pressed = "previous_page"]

\* lines 116-120
next_page(v) ==
    IF v.current_page < Len(v.pages) - 1
    THEN turned(v, v.current_page + 1, "next_page")
    ELSE [v EXCEPT !.pressed = "next_page"]

\* lines 123-126
fast_forward(v) == turned(v, Len(v.pages) - 1, "fast_forward")

\* main.py lines 529-548: the correlation returned 1..MaxRecords records and
\* the view was built and sent (an empty result returns at line 535)
InitView ==
    /\ \E total_sessions \in 1..MaxRecords, eq_str \in BOOLEAN :
           view = new_view(create_embed_pages(total_sessions), eq_str)
    /\ battlemetrics_ids = {}
    /\ user_status = <<>>
    /\ online_server = <<>>
    /\ loop = <<>>
    /\ notice = <<>>
    /\ seen_ids = {}
    /\ directory = <<>>
    /\ searches = <<>>
    /\ CorrelateIdle

\* everything but the view
but_view == <<correlate_state, battlemetrics_ids, user_status, online_server, loop,
              notice, seen_ids, directory, searches>>

PressRewind ==
    /\ view' = rewind(view)
    /\ UNCHANGED but_view

PressPrevious ==
    /\ view' = previous_page(view)
    /\ UNCHANGED but_view

PressNext ==
    /\ view' = next_page(view)
    /\ UNCHANGED but_view

PressFastForward ==
    /\ view' = fast_forward(view)
    /\ UNCHANGED but_view

\* lines 128-129: the view's timeout (300 s, line 84) has passed; the library
\* calls on_timeout once
Timeout ==
    /\ view.children # {}
    /\ view' = on_timeout(view)
    /\ UNCHANGED but_view

NextView == PressRewind \/ PressPrevious \/ PressNext \/ PressFastForward \/ Timeout

SpecView == InitView /\ [][NextView]_vars

----------------------------------------------------------------------------
(* monitor_loop and the monitor / monitorrm commands (main.py lines 248-308, *)
(* 552-580; util/monitor.py; util/battlemetrics.py)                        *)

MonitoredIds == {"A", "B"}

\* the server a player is on, "" for none: what the API reports
Offline == ""
Presence == Servers \cup {Offline}

\* util/monitor.py lines 1-12 and every def of the module: the names bound in
\* the module's namespace
monitor_globals ==
    {"debug", "user_status", "battlemetrics_json_data", "battlemetrics_ids",
     "monitor_channel_id", "requests", "sys", "json", "datetime", "sleep", "os",
     "random", "send_activity_embed", "send_serverchange_embed", "debug_print",
     "get_request", "get_battlemetrics_player", "get_battlemetrics_player_servers",
     "get_recently_visited_servers", "get_online_server", "get_battlemetrics_server",
     "get_battlemetrics_server_details", "send_embed"}

\* util/monitor.py lines 30-76: how a call of send_activity_embed ends.
\* lines 31, 34: a failed request ends in sys.exit; lines 38, 60, 66 read the
\* name discord, a NameError where the module does not bind it, raised again
\* at line 76; line 73 sends.
send_activity_embed(api_ok) ==
    IF ~api_ok THEN "SystemExit"
    ELSE IF "discord" \notin monitor_globals THEN "NameError"
    ELSE "sent"

\* util/monitor.py lines 93-115, called with a server id
send_serverchange_embed(api_ok) ==
    IF ~api_ok THEN "SystemExit"
    ELSE IF "discord" \notin monitor_globals THEN "NameError"
    ELSE "sent"

\* main.py line 567
first_seen == [online |-> FALSE, serverid |-> "0"]

\* main.py lines 566-567
with_first_seen(status, id) ==
    IF id \in DOMAIN status THEN status
    ELSE [k \in DOMAIN status \cup {id} |-> IF k = id THEN first_seen ELSE status[k]]

\* server_data.get('id', default) for the server_data of get_online_server
server_id_or(server_data, default) == IF server_data = Offline THEN default ELSE server_data

\* main.py lines 561-577: one pass of the loop body for one player.
\* api_ok: the requests of lines 561 and 563 succeed; send_api_ok: those made
\* by the send. outcome is "ok", "NameError" (caught at line 578) or
\* "SystemExit" (not an Exception: not caught). compared: the pass got as
\* far as the comparison of lines 569-575 and the process goes on.
evaluate(status, id, server_data, api_ok, send_api_ok) ==
    LET online_status == server_data # Offline
        status1 == with_first_seen(status, id)
    IN  IF ~api_ok
        THEN [user_status |-> status, outcome |-> "SystemExit", sent |-> FALSE,
              compared |-> FALSE]
        ELSE IF status1[id].online # online_status
        THEN LET o == send_activity_embed(send_api_ok)
             IN  IF o = "sent"
                 THEN [user_status |->
                          [status1 EXCEPT ![id] =
                              [online |-> ~status1[id].online,
                               serverid |-> server_id_or(server_data, "0")]],
                       outcome |-> "ok", sent |-> TRUE, compared |-> TRUE]
                 ELSE [user_status |-> status1, outcome |-> o, sent |-> FALSE,
                       compared |-> o # "SystemExit"]
        ELSE IF online_status /\ status1[id].online
                /\ status1[id].serverid # server_data
        THEN LET o == send_serverchange_embed(send_api_ok)
             IN  IF o = "sent"
                 THEN [user_status |->
                          [status1 EXCEPT ![id].serverid = server_id_or(server_data, "0")],
                       outcome |-> "ok", sent |-> FALSE, compared |-> TRUE]
                 ELSE [user_status |-> status1, outcome |-> o, sent |-> FALSE,
                       compared |-> o # "SystemExit"]
        ELSE [user_status |-> status1, outcome |-> "ok", sent |-> FALSE,
              compared |-> TRUE]

\* Mutant of rest: the iteration of line 560 ends after its first player
rest_none(todo, id) == {}

\* line 560: the players the iteration has still to visit after id
rest(todo, id) == todo \ {id}

\* the tick after the pass for id ended with outcome
after_evaluate(l, id, outcome) ==
    IF outcome = "SystemExit"
    THEN [l EXCEPT !.pc = "stopped", !.last = "exited", !.todo = {}]
    ELSE IF outcome = "NameError"
    THEN [l EXCEPT !.pc = "idle", !.last = "failed", !.todo = {},
                   !.evaluated = @ \cup {id}]
    ELSE IF rest(l.todo, id) = {}
    THEN [l EXCEPT !.pc = "idle", !.last = "completed", !.todo = {},
                   !.evaluated = @ \cup {id}]
    ELSE [l EXCEPT !.todo = rest(l.todo, id), !.evaluated = @ \cup {id}]

NoNotice == [id |-> "", stored |-> first_seen, observed |-> Offline, sent |-> FALSE,
             after |-> first_seen]

NoTick == [pc |-> "idle", start_ids |-> {}, iter_ids |-> {}, todo |-> {},
           evaluated |-> {}, last |-> "none"]

\* main.py lines 66-68 and line 199: the globals when monitor_loop is started
InitMonitor ==
    /\ battlemetrics_ids \in SUBSET MonitoredIds
    /\ user_status = empty_dict
    /\ online_server \in [MonitoredIds -> Presence]
    /\ loop = NoTick
    /\ notice = NoNotice
    /\ view = <<>>
    /\ seen_ids = {}
    /\ directory = <<>>
    /\ searches = <<>>
    /\ CorrelateIdle

\* what the monitor, its commands and the players leave alone
but_monitor == <<correlate_state, view, seen_ids, directory, searches>>

\* lines 553-556: a tick begins and is suspended at fetch_channel
TickStart ==
    /\ loop.pc = "idle"
    /\ loop' = [pc |-> "channel", start_ids |-> battlemetrics_ids, iter_ids |-> {},
                todo |-> {}, evaluated |-> {}, last |-> "running"]
    /\ UNCHANGED <<battlemetrics_ids, user_status, online_server, notice, but_monitor>>

\* lines 556-560: fetch_channel returned the channel; the iteration over the
\* set begins. Nothing suspends the tick until the iteration is over.
ChannelFetched ==
    /\ loop.pc = "channel"
    /\ loop' = IF battlemetrics_ids = {}
               THEN [loop EXCEPT !.pc = "idle", !.last = "completed"]
               ELSE [loop EXCEPT !.pc = "iter", !.iter_ids = battlemetrics_ids,
                                 !.todo = battlemetrics_ids]
    /\ UNCHANGED <<battlemetrics_ids, user_status, online_server, notice, but_monitor>>

\* lines 556-559, 578-579: fetch_channel raised or returned no channel
ChannelFailed ==
    /\ loop.pc = "channel"
    /\ loop' = [loop EXCEPT !.pc = "idle", !.last = "failed"]
    /\ UNCHANGED <<battlemetrics_ids, user_status, online_server, notice, but_monitor>>

\* lines 560-579: the pass of the loop body for one player of the set
Evaluate(id) ==
    /\ loop.pc = "iter"
    /\ id \in loop.todo
    /\ \E api_ok \in BOOLEAN, send_api_ok \in BOOLEAN :
          LET status1 == with_first_seen(user_status, id)
              r == evaluate(user_status, id, online_server[id], api_ok, send_api_ok)
          IN  /\ user_status' = r.user_status
              /\ loop' = after_evaluate(loop, id, r.outcome)
              /\ notice' = IF r.compared
                           THEN [id |-> id, stored |-> status1[id],
                                 observed |-> online_server[id],
                                 sent |-> r.sent, after |-> r.user_status[id]]
                           ELSE notice
    /\ UNCHANGED <<battlemetrics_ids, online_server, but_monitor>>

\* main.py lines 248-293: the monitor command, run while the tick is suspended
\* or between ticks. api_ok: the requests of lines 259-260 succeed (a failed
\* one ends in sys.exit before the id is added); later_api_ok: those made after
\* the id was added and saved at lines 263-264, by get_recently_visited_servers
\* (line 267, player offline) or by send_activity_embed (line 291, player
\* online), succeed. A NameError of send_activity_embed ends the command only.
Monitor(id) ==
    /\ IF loop.pc = "idle" THEN TRUE ELSE loop.pc = "channel"
    /\ \E api_ok \in BOOLEAN, later_api_ok \in BOOLEAN :
          IF ~api_ok
          THEN /\ battlemetrics_ids' = battlemetrics_ids
               /\ loop' = [loop EXCEPT !.pc = "stopped"]
          ELSE /\ battlemetrics_ids' = battlemetrics_ids \cup {id}
               /\ loop' = IF online_server[id] = Offline
                          THEN IF later_api_ok THEN loop
                               ELSE [loop EXCEPT !.pc = "stopped"]
                          ELSE IF send_activity_embed(later_api_ok) = "SystemExit"
                               THEN [loop EXCEPT !.pc = "stopped"]
                               ELSE loop
    /\ UNCHANGED <<user_status, online_server, notice, but_monitor>>

\* main.py lines 295-324: the monitorrm command; the request of line 309 is
\* made after the removal
MonitorRm(id) ==
    /\ IF loop.pc = "idle" THEN TRUE ELSE loop.pc = "channel"
    /\ battlemetrics_ids' = battlemetrics_ids \ {id}
    /\ \E api_ok \in BOOLEAN :
          loop' = IF id \in battlemetrics_ids /\ ~api_ok
                  THEN [loop EXCEPT !.pc = "stopped"]
                  ELSE loop
    /\ UNCHANGED <<user_status, online_server, notice, but_monitor>>

\* a player joins or leaves a server
Moves(id) ==
    /\ loop.pc # "stopped"
    /\ \E s \in Presence \ {online_server[id]} :
          online_server' = [online_server EXCEPT ![id] = s]
    /\ UNCHANGED <<battlemetrics_ids, user_status, loop, notice, but_monitor>>

\* the steps of monitor_loop
NextTick ==
    \/ TickStart
    \/ ChannelFetched
    \/ ChannelFailed
    \/ \E id \in MonitoredIds : Evaluate(id)

NextMonitor ==
    \/ NextTick
    \/ \E id \in MonitoredIds : Monitor(id) \/ MonitorRm(id) \/ Moves(id)

SpecMonitor == InitMonitor /\ [][NextMonitor]_vars

\* main.py line 552: tasks.loop(seconds=10) runs the tick again and again
FairSpecMonitor == SpecMonitor /\ WF_vars(NextTick)

----------------------------------------------------------------------------
(* The search command (main.py lines 423-504) and search_player            *)
(* (util/search.py)                                                        *)

\* the search commands that can be in progress at once
Commands == {1, 2}

\* util/search.py line 25
result_limit == 100

\* main.py line 437
sort_methods == <<"", "-lastSeen", "firstSeen">>

Usernames == {"bob", "al b"}

\* username.replace(' ', '+'), main.py line 448
plus_for_space(username) == IF username = "al b" THEN "al+b" ELSE username

\* ' ' in username, main.py line 446
has_space(username) == username = "al b"

\* main.py lines 439-452: the number of calls of search_player a command makes
\* when none fails, and the username of the k-th call
calls_of(username) ==
    IF has_space(username) THEN 2 * Len(sort_methods) ELSE Len(sort_methods)

query(username, k) ==
    IF k <= Len(sort_methods) THEN username ELSE plus_for_space(username)

\* the players of the API: id, name, and whether the player has servers
P1 == [id |-> "1", name |-> "bob", servers |-> TRUE]
P2 == [id |-> "2", name |-> "bob", servers |-> FALSE]
P3 == [id |-> "3", name |-> "al b", servers |-> TRUE]

\* what the API returns for a search, page after page (data['data'], and
\* links.next on every page but the last)
Directories ==
    { << <<P1>>, <<P2, P3>> >>,
      << <<P2>> >> }

\* util/search.py lines 37-49: the loop over the players of one page
RECURSIVE scan(_, _, _, _, _)
scan(data, i, username, seen, all_results) ==
    IF i > Len(data) THEN [seen |-> seen, all_results |-> all_results]
    ELSE LET player == data[i]
             unseen == player.name = username /\ player.id \notin seen
             seen1 == IF unseen THEN seen \cup {player.id} ELSE seen
             all_results1 == IF unseen /\ player.servers
                             THEN Append(all_results, player.id)
                             ELSE all_results
         IN  IF Len(all_results1) >= result_limit
             THEN [seen |-> seen1, all_results |-> all_results1]
             ELSE scan(data, i + 1, username, seen1, all_results1)

\* util/search.py lines 54-58: a failed request. Line 55 calls
\* str.replace(jwt, ''), a TypeError when jwt is None, raised inside the
\* handler and so out of search_player; otherwise ([], error) is returned and
\* the command reports it (main.py lines 440-443).
on_request_error(a_jwt) == IF a_jwt = Null THEN "TypeError" ELSE "error"

NoSearch ==
    [pc |-> "idle", username |-> "", jwt |-> Null, call |-> 0, page |-> 0,
     all_results |-> <<>>, results |-> <<>>, shared |-> FALSE, own |-> {},
     clean_start |-> FALSE, outcome |-> ""]

\* the command s has ended with the outcome; its locals are gone
ended(s, outcome) ==
    [NoSearch EXCEPT !.pc = "done", !.outcome = outcome]

\* main.py line 504 binds the global seen_ids to a new set: a call of
\* search_player in progress keeps the set it was given (line 439)
detached(s, old_seen_ids) ==
    IF s.shared THEN [s EXCEPT !.shared = FALSE, !.own = old_seen_ids] ELSE s

\* main.py line 66 and the API
InitSearch ==
    /\ seen_ids = {}
    /\ directory \in Directories
    /\ searches = [c \in Commands |-> NoSearch]
    /\ view = <<>>
    /\ battlemetrics_ids = {}
    /\ user_status = <<>>
    /\ online_server = <<>>
    /\ loop = <<>>
    /\ notice = <<>>
    /\ CorrelateIdle

\* what the search command leaves alone
but_search == <<correlate_state, view, battlemetrics_ids, user_status, online_server,
                loop, notice, directory>>

\* main.py lines 423-425: a search command arrives and is suspended at defer
SearchStart(c) ==
    /\ IF searches[c].pc = "idle" THEN TRUE ELSE searches[c].pc = "done"
    /\ \E username \in Usernames, a_jwt \in Tokens :
          searches' = [searches EXCEPT ![c] =
              [NoSearch EXCEPT !.pc = "deferred", !.username = username,
                               !.jwt = a_jwt, !.clean_start = (seen_ids = {})]]
    /\ UNCHANGED <<seen_ids, but_search>>

\* main.py lines 439-456, 458-502 and util/search.py lines 7-31, 60-63: from
\* the await the command or its call of search_player was suspended at (defer,
\* or line 61) to the next one: the call returns, results.extend, and either
\* the next call of search_player runs up to line 31, or the command ends with
\* "No exact matches", or it builds the pages and is suspended at line 502
Returned(c) ==
    LET s == searches[c]
        results1 == s.results \o s.all_results
    IN  /\ IF s.pc = "deferred" THEN TRUE ELSE s.pc = "completed"
        /\ searches' = [searches EXCEPT ![c] =
              IF s.call < calls_of(s.username)
              THEN [s EXCEPT !.pc = "page", !.call = @ + 1, !.page = 1,
                             !.all_results = <<>>, !.results = results1,
                             !.shared = TRUE, !.own = {}]
              ELSE IF results1 = <<>>
              THEN ended([s EXCEPT !.results = results1], "none")
              ELSE [s EXCEPT !.pc = "showing", !.results = results1,
                             !.all_results = <<>>, !.shared = FALSE, !.own = {}]]
        /\ UNCHANGED <<seen_ids, but_search>>

\* util/search.py lines 33-58: after the await of line 31, the request for one
\* page and what follows it up to the next await (line 31 again, or line 61),
\* or the failure of the request
Page(c) ==
    LET s == searches[c] IN
    /\ s.pc = "page"
    /\ \E ok \in BOOLEAN :
          IF ~ok
          THEN /\ searches' = [searches EXCEPT ![c] = ended(s, on_request_error(s.jwt))]
               /\ seen_ids' = seen_ids
          ELSE LET r == scan(directory[s.page], 1, query(s.username, s.call),
                             IF s.shared THEN seen_ids ELSE s.own, s.all_results)
                   more == s.page < Len(directory) /\ Len(r.all_results) < result_limit
               IN  /\ seen_ids' = IF s.shared THEN r.seen ELSE seen_ids
                   /\ searches' = [searches EXCEPT ![c] =
                         [s EXCEPT !.all_results = r.all_results,
                                   !.own = IF s.shared THEN {} ELSE r.seen,
                                   !.page = IF more THEN @ + 1 ELSE 0,
                                   !.pc = IF more THEN "page" ELSE "completed"]]
    /\ UNCHANGED but_search

\* main.py lines 502-504: the message with the pages was sent; seen_ids is reset
Shown(c) ==
    /\ searches[c].pc = "showing"
    /\ seen_ids' = {}
    /\ searches' = [d \in Commands |->
                       IF d = c THEN ended(searches[c], "shown")
                       ELSE detached(searches[d], seen_ids)]
    /\ UNCHANGED but_search

NextSearch ==
    \E c \in Commands : SearchStart(c) \/ Returned(c) \/ Page(c) \/ Shown(c)

SpecSearch == InitSearch /\ [][NextSearch]_vars

----------------------------------------------------------------------------
(* Well-formedness of the model *)

TypeOK ==
    /\ player_ids \in PlayerLists
    /\ pc \in {"fetch", "request", "merge", "done", "raised"}
    /\ failures_left \in 0..MaxFailures
    /\ failed \subseteq DOMAIN all_sessions
    /\ frame.attempt \in 0..2
    /\ run \in {1, 2}
    /\ DOMAIN all_sessions \subseteq Range(player_ids)
    /\ pos = Done \/ pos \in positions(player_ids, all_sessions)

\* The stepwise run and the function agree on what is returned.
ReturnsFunctionValue ==
    (pc = "done" /\ failed = {}) =>
        overlapping_sessions = find_overlapping_sessions(player_ids, provider, end_time)

----------------------------------------------------------------------------
(* Vocabulary of the properties: what a session and a record say, read off  *)
(* the data and not through the operators that model the code.              *)

SpecStart(s) == s.attributes.start[1]
SpecClosed(s) == s.attributes.stop # Null
\* the stop, an active session taking the window end T
SpecStop(s, T) == IF SpecClosed(s) THEN s.attributes.stop[1] ELSE T
SpecServer(s) == s.relationships.server.data.id

\* the two sessions of an inner-loop body <<i, j, k1, k2>>
Session1(q) == all_sessions[player_ids[q[1]]][q[3]]
Session2(q) == all_sessions[player_ids[q[2]]][q[4]]

\* the window two sessions share, <<start, stop>>
Window(s1, s2, T) ==
    <<Max(SpecStart(s1), SpecStart(s2)), Min(SpecStop(s1, T), SpecStop(s2, T))>>

TimesIntersect(s1, s2, T) == Window(s1, s2, T)[1] < Window(s1, s2, T)[2]

Records == Range(overlapping_sessions)
WithKey(srv, a, b) ==
    {k \in DOMAIN overlapping_sessions :
        /\ overlapping_sessions[k].server_id = srv
        /\ overlapping_sessions[k].start = a
        /\ overlapping_sessions[k].stop = b}

\* a result as a set of records whose participants are a set
AsSet(recs) ==
    {[server_id |-> r.server_id, start |-> r.start, stop |-> r.stop,
      duration |-> r.duration, players |-> Range(r.players)] : r \in Range(recs)}

----------------------------------------------------------------------------
(* C1 *)

TwoPlayersOneSessionEach ==
    /\ Len(player_ids) = 2
    /\ player_ids[1] # player_ids[2]
    /\ pc \in {"merge", "done"}
    /\ Len(all_sessions[player_ids[1]]) = 1
    /\ Len(all_sessions[player_ids[2]]) = 1
    /\ SpecServer(all_sessions[player_ids[1]][1]) = SpecServer(all_sessions[player_ids[2]][1])
    /\ TimesIntersect(all_sessions[player_ids[1]][1], all_sessions[player_ids[2]][1], end_time)

\* C1: two distinct players with one session each, on the same server, with
\* max(start) < min(stop): the request returns exactly one record, with
\* start = max of the starts, stop = min of the stops, duration = stop - start
\* and participants exactly the two players.
C1_OneRecordForTwoPlayers ==
    (pc = "done" /\ TwoPlayersOneSessionEach) =>
        LET s1 == all_sessions[player_ids[1]][1]
            s2 == all_sessions[player_ids[2]][1]
            w == Window(s1, s2, end_time)
        IN /\ Len(overlapping_sessions) = 1
           /\ overlapping_sessions[1].server_id = SpecServer(s1)
           /\ overlapping_sessions[1].start = w[1]
           /\ overlapping_sessions[1].stop = w[2]
           /\ overlapping_sessions[1].duration = w[2] - w[1]
           /\ Len(overlapping_sessions[1].players) = 2
           /\ Range(overlapping_sessions[1].players) = {player_ids[1], player_ids[2]}

\* The case of the spec's example: each session starts or stops inside the
\* other ([0,2] and [1,3) give start 1, stop 2, duration 1).
C1_Witness ==
    /\ pc = "done"
    /\ TwoPlayersOneSessionEach
    /\ SpecStart(all_sessions[player_ids[1]][1]) = 0
    /\ SpecStop(all_sessions[player_ids[1]][1], end_time) = 2
    /\ SpecStart(all_sessions[player_ids[2]][1]) = 1
    /\ SpecStop(all_sessions[player_ids[2]][1], end_time) = 3
    /\ Len(overlapping_sessions) = 1
    /\ overlapping_sessions[1].start = 1
    /\ overlapping_sessions[1].stop = 2
    /\ overlapping_sessions[1].duration = 1

----------------------------------------------------------------------------
(* C2 *)

\* C2: a pair of sessions whose server ids differ never creates a record and
\* never adds a participant: the body executed for such a pair leaves the list
\* of records as it is, whatever the sessions' times.
C2_DifferentServersNeverOverlap ==
    [][(pc = "merge" /\ pos # Done /\ SpecServer(Session1(pos)) # SpecServer(Session2(pos)))
        => overlapping_sessions' = overlapping_sessions]_vars

\* A body was executed for two sessions of different servers whose times
\* intersect, while a record of an earlier pair exists.
C2_Witness ==
    /\ pc = "merge"
    /\ last # Done
    /\ SpecServer(Session1(last)) # SpecServer(Session2(last))
    /\ TimesIntersect(Session1(last), Session2(last), end_time)
    /\ overlapping_sessions # <<>>

----------------------------------------------------------------------------
(* C3 *)

ThreeDistinctPlayers ==
    /\ Len(player_ids) = 3
    /\ Cardinality(Range(player_ids)) = 3

\* players a and b have sessions on srv whose shared window is exactly <<x, y>>
ShareWindow(a, b, srv, x, y) ==
    \E s1 \in Range(all_sessions[a]), s2 \in Range(all_sessions[b]) :
        /\ SpecServer(s1) = srv
        /\ SpecServer(s2) = srv
        /\ Window(s1, s2, end_time) = <<x, y>>
        /\ x < y

\* player c has a session on srv that spans exactly <<x, y>>
SpansExactly(c, srv, x, y) ==
    \E s \in Range(all_sessions[c]) :
        /\ SpecServer(s) = srv
        /\ SpecStart(s) = x
        /\ SpecStop(s, end_time) = y

ThirdPlayerCase(a, b, c, srv, x, y) ==
    /\ {a, b, c} = Range(player_ids)
    /\ ShareWindow(a, b, srv, x, y)
    /\ SpansExactly(c, srv, x, y)

\* C3: players a and b overlap on a server in a window, and a third player c has
\* a session on that server spanning exactly the window: wherever a, b and c
\* stand in the input list, the result holds a single record with that window,
\* and its participants are a, b and c.
C3_ThirdPlayerJoinsRecord ==
    (pc = "done" /\ ThreeDistinctPlayers) =>
        \A a \in PlayerIds, b \in PlayerIds, c \in PlayerIds :
        \A srv \in Servers, x \in Times, y \in Times :
            ThirdPlayerCase(a, b, c, srv, x, y) =>
                /\ Cardinality(WithKey(srv, x, y)) = 1
                /\ \A k \in WithKey(srv, x, y) :
                       /\ Range(overlapping_sessions[k].players) = {a, b, c}
                       /\ Len(overlapping_sessions[k].players) = 3

\* The third player is the first of the list, and neither of the two others
\* spans the window exactly.
C3_Witness ==
    /\ pc = "done"
    /\ ThreeDistinctPlayers
    /\ \E srv \in Servers, x \in Times, y \in Times :
           /\ ThirdPlayerCase(player_ids[2], player_ids[3], player_ids[1], srv, x, y)
           /\ ~SpansExactly(player_ids[2], srv, x, y)
           /\ ~SpansExactly(player_ids[3], srv, x, y)
           /\ \E k \in WithKey(srv, x, y) : Len(overlapping_sessions[k].players) = 3

----------------------------------------------------------------------------
(* C4 *)

Touching(s1, s2, T) ==
    \/ SpecStop(s1, T) = SpecStart(s2)
    \/ SpecStop(s2, T) = SpecStart(s1)

\* C4: two sessions on the same server of which one stops when the other
\* starts do not overlap: the body executed for such a pair creates no record
\* and adds no participant.
C4_TouchingIntervalsDoNotOverlap ==
    [][(/\ pc = "merge"
        /\ pos # Done
        /\ SpecServer(Session1(pos)) = SpecServer(Session2(pos))
        /\ Touching(Session1(pos), Session2(pos), end_time))
        => overlapping_sessions' = overlapping_sessions]_vars

\* A body was executed for two touching sessions of one server, and the
\* request returns nothing.
C4_Witness ==
    /\ pc = "done"
    /\ last # Done
    /\ SpecServer(Session1(last)) = SpecServer(Session2(last))
    /\ Touching(Session1(last), Session2(last), end_time)
    /\ overlapping_sessions = <<>>

----------------------------------------------------------------------------
(* C5 *)

\* the session with a null stop replaced by the timestamp of T
ClosedAt(s, T) ==
    IF SpecClosed(s) THEN s ELSE [s EXCEPT !.attributes.stop = IsoZ(T)]

AllClosedAt(prov, T) ==
    [p \in DOMAIN prov |-> [k \in DOMAIN prov[p] |-> ClosedAt(prov[p][k], T)]]

\* C5: an active session (stop null) counts as a session that stops at the
\* window's end T: the request returns what it returns when every null stop of
\* the provider's data is replaced by T.
C5_ActiveSessionStopsAtWindowEnd ==
    pc = "done" =>
        overlapping_sessions =
            find_overlapping_sessions(player_ids, AllClosedAt(provider, end_time), end_time)

\* An active session overlaps a closed one and the record stops where the
\* closed one stops; two active sessions give a record that stops at T.
C5_Witness ==
    /\ pc = "done"
    /\ \E p \in DOMAIN all_sessions : \E s \in Range(all_sessions[p]) : ~SpecClosed(s)
    /\ \E r \in Records : r.stop = end_time
    /\ \E r \in Records : r.stop < end_time

----------------------------------------------------------------------------
(* C6 *)

\* C6: every record of the list, while it is built and when it is returned, has
\* start < stop and duration = stop - start, so a positive duration.
C6_RecordWindowIsProper ==
    \A r \in Records :
        /\ r.start < r.stop
        /\ r.duration = r.stop - r.start
        /\ r.duration > 0

\* Two records of different durations are returned.
C6_Witness ==
    /\ pc = "done"
    /\ \E r1 \in Records, r2 \in Records : r1.duration = 1 /\ r2.duration = 3

----------------------------------------------------------------------------
(* C7 *)

NoDuplicate(l) == \A k \in DOMAIN l, m \in DOMAIN l : l[k] = l[m] => k = m

\* C7: for every input list of player ids, also one that names an id twice, the
\* participants of every record are de-duplicated and at least 2 distinct ids.
C7_ParticipantsDistinct ==
    \A r \in Records :
        /\ NoDuplicate(r.players)
        /\ Cardinality(Range(r.players)) >= 2

----------------------------------------------------------------------------
(* C8 *)

Covers(s, r) ==
    /\ SpecServer(s) = r.server_id
    /\ SpecStart(s) <= r.start
    /\ SpecStop(s, end_time) >= r.stop

\* C8: every participant of every record has a fetched session on the record's
\* server that covers the record's window: session start <= record start and
\* effective stop >= record stop.
C8_ParticipantsCoverWindow ==
    pc \in {"merge", "done"} =>
        \A r \in Records : \A p \in Range(r.players) :
            \E s \in Range(all_sessions[p]) : Covers(s, r)

\* A record of three participants none of whose sessions is the window itself.
C8_Witness ==
    /\ pc = "done"
    /\ \E r \in Records :
           /\ Cardinality(Range(r.players)) = 3
           /\ \E p \in Range(r.players) : \A s \in Range(all_sessions[p]) :
                  Covers(s, r) => SpecStart(s) < r.start

----------------------------------------------------------------------------
(* C9 *)

\* C9: correlating a single player returns the empty list, whatever sessions
\* the player has: the request reaches its return and no record was made.
C9_SinglePlayerReturnsEmpty ==
    Len(player_ids) = 1 =>
        /\ overlapping_sessions = <<>>
        /\ pc = "merge" => pos = Done

\* A single player with sessions that intersect each other on one server.
C9_Witness ==
    /\ pc = "done"
    /\ Len(player_ids) = 1
    /\ \E k \in DOMAIN all_sessions[player_ids[1]], m \in DOMAIN all_sessions[player_ids[1]] :
           /\ k # m
           /\ SpecServer(all_sessions[player_ids[1]][k]) = SpecServer(all_sessions[player_ids[1]][m])
           /\ TimesIntersect(all_sessions[player_ids[1]][k], all_sessions[player_ids[1]][m], end_time)

----------------------------------------------------------------------------
(* C10 *)

\* the second call read at line 9 the time the first call read (Init)
SameWindowEnd == end_time = MaxTime

\* C10: the request made twice on the same player list, provider data and
\* window end returns set-equal results, and the second run starts its merge
\* from an empty list: nothing of the first run is left in it.
C10_Idempotent ==
    /\ (run = 2 /\ pc = "done" /\ SameWindowEnd) =>
           AsSet(overlapping_sessions) = AsSet(first_result)
    /\ (run = 2 /\ pc = "done" /\ SameWindowEnd) =>
           Len(overlapping_sessions) = Len(first_result)
    /\ (run = 2 /\ pc = "merge" /\ last = Done) => overlapping_sessions = <<>>

\* The second run has returned with the same window end, with two records.
C10_Witness ==
    /\ run = 2
    /\ pc = "done"
    /\ SameWindowEnd
    /\ Len(first_result) >= 2
    /\ Len(overlapping_sessions) >= 2

----------------------------------------------------------------------------
(* C18 *)

\* the index pairs i < j of the input list
IndexPairs == {q \in (1..Len(player_ids)) \X (1..Len(player_ids)) : q[1] < q[2]}

\* players p and q have sessions on the record's server whose shared window is
\* exactly the record's
PairMatches(p, q, r) ==
    \E s1 \in Range(all_sessions[p]), s2 \in Range(all_sessions[q]) :
        /\ SpecServer(s1) = r.server_id
        /\ SpecServer(s2) = r.server_id
        /\ Window(s1, s2, end_time) = <<r.start, r.stop>>

\* C18: in the returned list every record holds both players of every pair
\* (i, j) of the input list that has a same-server session pair whose overlap
\* window is exactly the record's (server id, start, stop).
C18_BothPlayersOfMatchingPair ==
    pc = "done" =>
        \A r \in Records : \A q \in IndexPairs :
            PairMatches(player_ids[q[1]], player_ids[q[2]], r) =>
                {player_ids[q[1]], player_ids[q[2]]} \subseteq Range(r.players)

----------------------------------------------------------------------------
(* C19 *)

Keys(recs) == {<<r.server_id, r.start, r.stop>> : r \in Range(recs)}

\* the windows of the same-server session pairs of players p and q that
\* intersect in time
PairWindows(p, q) ==
    {<<SpecServer(c[1]), Window(c[1], c[2], end_time)[1], Window(c[1], c[2], end_time)[2]>> :
        c \in {d \in Range(all_sessions[p]) \X Range(all_sessions[q]) :
                  /\ SpecServer(d[1]) = SpecServer(d[2])
                  /\ TimesIntersect(d[1], d[2], end_time)}}

\* over every unordered pair of distinct players of the input list
WindowsOfDistinctPlayers ==
    UNION {PairWindows(c[1], c[2]) :
              c \in {d \in Range(player_ids) \X Range(player_ids) : d[1] # d[2]}}

\* C19: the keys (server id, start, stop) of the returned records are exactly
\* the windows (server, max start, min stop) of the same-server session pairs,
\* one session per player, of every unordered pair of distinct players, with
\* max start < min stop: none is lost, none is merged with another.
C19_KeysAreTheWindows ==
    pc = "done" => Keys(overlapping_sessions) = WindowsOfDistinctPlayers

\* The same on input lists that name no id twice.
KeysAreTheWindowsOfDistinctIds ==
    (pc = "done" /\ Cardinality(Range(player_ids)) = Len(player_ids)) =>
        Keys(overlapping_sessions) = WindowsOfDistinctPlayers

\* Two records whose windows intersect each other are returned for a list of
\* distinct ids.
TwoIntersectingWindowsReturned ==
    /\ pc = "done"
    /\ Cardinality(Range(player_ids)) = Len(player_ids)
    /\ \E r1 \in Records, r2 \in Records :
           /\ r1.server_id = r2.server_id
           /\ <<r1.start, r1.stop>> # <<r2.start, r2.stop>>
           /\ Max(r1.start, r2.start) < Min(r1.stop, r2.stop)

----------------------------------------------------------------------------
(* C20 *)

UniqueKeys ==
    \A k \in DOMAIN overlapping_sessions, m \in DOMAIN overlapping_sessions :
        (/\ overlapping_sessions[k].server_id = overlapping_sessions[m].server_id
         /\ overlapping_sessions[k].start = overlapping_sessions[m].start
         /\ overlapping_sessions[k].stop = overlapping_sessions[m].stop) => k = m

\* a step appends a record only when no record of the list has its key
AppendsOnlyNewKey ==
    Len(overlapping_sessions') > Len(overlapping_sessions) =>
        LET new == overlapping_sessions'[Len(overlapping_sessions')]
        IN /\ Len(overlapping_sessions') = Len(overlapping_sessions) + 1
           /\ WithKey(new.server_id, new.start, new.stop) = {}

\* C20: at every point of the merge loop and in the returned list no two
\* records share a key (server id, start, stop), and a record is appended only
\* when no record of the list has that key.
C20_NoTwoRecordsShareKey == []UniqueKeys /\ [][AppendsOnlyNewKey]_vars

\* A body found its window in the list and appended nothing, with two records
\* in the list.
C20_Witness ==
    /\ pc = "merge"
    /\ last # Done
    /\ SpecServer(Session1(last)) = SpecServer(Session2(last))
    /\ TimesIntersect(Session1(last), Session2(last), end_time)
    /\ Len(overlapping_sessions) = 2
    /\ pos = Done
    /\ \E q \in positions(player_ids, all_sessions) :
           /\ q # last
           /\ SpecServer(Session1(q)) = SpecServer(Session1(last))
           /\ SpecServer(Session2(q)) = SpecServer(Session1(last))
           /\ Window(Session1(q), Session2(q), end_time)
                = Window(Session1(last), Session2(last), end_time)

----------------------------------------------------------------------------
(* C14 *)

\* a session object that has its start time and its server reference
HasStartAndServer(s) ==
    /\ "start" \in DOMAIN s.attributes
    /\ s.attributes.start # Null
    /\ "server" \in DOMAIN s.relationships

WellFormedOnly(prov) ==
    [p \in DOMAIN prov |-> SelectSeq(prov[p], HasStartAndServer)]

\* C14: a session record without start time or without server reference is
\* skipped: the call does not raise, and it returns the overlaps computed from
\* the well-formed records of all players.
C14_MalformedRecordSkipped ==
    /\ pc # "raised"
    /\ pc = "done" =>
           overlapping_sessions =
               find_overlapping_sessions(player_ids, WellFormedOnly(provider), end_time)

\* The call returned although a fetched list holds a malformed record
ReturnedWithMalformedRecord ==
    /\ pc = "done"
    /\ \E p \in Range(player_ids) : \E s \in Range(all_sessions[p]) : ~HasStartAndServer(s)

----------------------------------------------------------------------------
(* C11 *)

\* the session s intersects the window [start_time, end_time)
IntersectsWindow(s) ==
    /\ SpecStart(s) < end_time
    /\ SpecStop(s, end_time) > start_time

\* C11: what get_player_sessions returned for a player holds only sessions that
\* intersect the window [start_time, end_time): a session that started and
\* stopped before start_time is not in it, and so no overlap record is made
\* of one (no record ends at or before start_time).
C11_FetchFilteredToWindow ==
    /\ \A p \in DOMAIN all_sessions : \A s \in Range(all_sessions[p]) : IntersectsWindow(s)
    /\ \A r \in Records : r.stop > start_time

----------------------------------------------------------------------------
(* C12 *)

\* the player whose fetch the log is of
LogPlayer == http_log[1].url[1]

\* an answer after which get_player_sessions makes no further request
FinalFailure(e) == e.status # 200 /\ (e.status # 401 \/ e.attempt = 2)

\* C12: a 401 answered to the first call of a fetch is followed by one retry
\* from the first page; no request of the retry carries the access token; a
\* 401 or another failure answered to the retry (or a failure other than 401
\* answered to the first call) is the last request of the fetch, which ends
\* with the empty list; there is never a third call.
C12_RetryOnceWithoutToken ==
    /\ frame.attempt <= 2
    /\ (frame.attempt = 2 /\ truthy(frame.url)) => ~truthy(frame.url[3])
    /\ \A k \in DOMAIN http_log :
         LET e == http_log[k]
         IN /\ e.attempt \in {1, 2}
            /\ e.attempt = 2 => ~truthy(e.url[3])
            /\ (e.status = 401 /\ e.attempt = 1) =>
                   /\ \A m \in 1..(k - 1) : http_log[m].status = 200 /\ http_log[m].attempt = 1
                   /\ \A m \in (k + 1)..Len(http_log) : http_log[m].attempt = 2
                   /\ k < Len(http_log) => http_log[k + 1].url = <<LogPlayer, 1, Null>>
                   /\ k = Len(http_log) =>
                          /\ pc = "request"
                          /\ frame.attempt = 2
                          /\ frame.url = <<LogPlayer, 1, Null>>
                          /\ frame.sessions = <<>>
            /\ FinalFailure(e) =>
                   /\ k = Len(http_log)
                   /\ pc # "request"
                   /\ all_sessions[LogPlayer] = <<>>

\* The first call sent the token and was answered 401, the retry fetched a
\* page and was then answered 401 too; the fetch has ended.
C12_Witness ==
    /\ pc = "fetch"
    /\ Len(http_log) = 3
    /\ http_log[1].status = 401 /\ http_log[1].attempt = 1 /\ http_log[1].url[3] = Token
    /\ http_log[2].status = 200 /\ http_log[2].attempt = 2
    /\ http_log[3].status = 401 /\ http_log[3].attempt = 2
    /\ all_sessions[LogPlayer] = <<>>
    /\ provider[LogPlayer] # <<>>

----------------------------------------------------------------------------
(* C13 *)

\* the provider's data with the players of F holding no sessions
Emptied(prov, F) == [p \in DOMAIN prov |-> IF p \in F THEN <<>> ELSE prov[p]]

\* C13: a fetch that ends on a non-200 answer stores the empty list for that
\* player and leaves the lists of the other players as the API holds them; the
\* fetch loop goes on, and the list returned is the one returned when the
\* failed players hold no sessions; a player with no sessions is in no record.
C13_FailedPlayerCountsAsEmpty ==
    /\ \A p \in DOMAIN all_sessions :
           all_sessions[p] = IF p \in failed THEN <<>> ELSE provider[p]
    /\ (pc = "fetch" /\ failed # {}) => ENABLED (Call \/ StartMerge)
    /\ pc = "done" =>
           overlapping_sessions =
               find_overlapping_sessions(player_ids, Emptied(provider, failed), end_time)
    /\ \A r \in Records : \A p \in Range(r.players) : all_sessions[p] # <<>>

\* A player whose sessions overlap another's failed to be fetched, and the
\* others' overlaps were returned.
C13_Witness ==
    /\ pc = "done"
    /\ failed # {}
    /\ overlapping_sessions # <<>>
    /\ Len(overlapping_sessions)
         < Len(find_overlapping_sessions(player_ids, provider, end_time))

----------------------------------------------------------------------------
(* C15 *)

\* C15: what find_overlapping_sessions returns after a player's fetch failed
\* differs from what it returns when that player has no sessions: the caller
\* can tell the two apart.
C15_FailureSurfaced ==
    (pc = "done" /\ failed # {}) =>
        overlapping_sessions #
            find_overlapping_sessions(player_ids, Emptied(provider, failed), end_time)

----------------------------------------------------------------------------
(* C16 *)

\* the call has left the loop of line 77: the last answer had no next page
LoopOver == pc = "request" /\ ~truthy(frame.url)

\* the requests of the call that is running
CallLog == SelectSeq(http_log, LAMBDA e : e.attempt = frame.attempt)

\* When the loop is over, the call has requested the pages 1, 2, ... once each,
\* up to the page that named no next one, and holds their records in that order.
PagesInOrder ==
    LoopOver =>
        /\ \A k \in DOMAIN CallLog : CallLog[k].url[2] = k /\ CallLog[k].status = 200
        /\ Len(CallLog) = pages(provider[player_ids[fetch_i]])
        /\ frame.sessions = provider[player_ids[fetch_i]]

\* When the loop is over, the next step sends no request and returns the list.
NoRequestAfterLastPage ==
    LoopOver =>
        /\ http_log' = http_log
        /\ all_sessions'[player_ids[fetch_i]] = frame.sessions

\* C16: after a 200 answer without 'links' or without a 'next' link the call
\* sends no further request and returns the records of the pages it fetched,
\* in page order; every call of get_player_sessions returns.
C16_StopsAtLastPage ==
    /\ []PagesInOrder
    /\ [][NoRequestAfterLastPage]_vars
    /\ (pc = "request") ~> (pc = "fetch")

\* Two pages with different records were fetched and the last answer had no
\* 'links' entry.
C16_Witness ==
    /\ LoopOver
    /\ Len(frame.sessions) = 2
    /\ frame.sessions[1] # frame.sessions[2]
    /\ frame.count = 2

\* The same with a last answer whose 'links' has no 'next'.
LastPageWithoutNext ==
    /\ LoopOver
    /\ Len(frame.sessions) = 2
    /\ frame.count = 3

----------------------------------------------------------------------------
(* C17 *)

\* what the request returns when it runs alone
Alone(r) == find_overlapping_sessions(calls[r].player_ids, provider, locals[r].end_time)

ReturnsAsAlone ==
    \A r \in Requests :
        /\ calls[r].pc # "raised"
        /\ calls[r].pc = "done" => calls[r].result = Alone(r)

\* a step in which request r is not resumed leaves r's fetched sessions, page
\* list and records as they are
OwnedByTheRequest ==
    \A r \in Requests : calls'[r].resumed = calls[r].resumed => locals'[r] = locals[r]

\* C17: two requests interleaved at their awaits each return what they return
\* alone, and no step of one writes the fetched sessions or the records of the
\* other.
C17_RequestsDoNotInterfere == []ReturnsAsAlone /\ [][OwnedByTheRequest]_vars

\* Both requests are between two pages of a fetch, each holding a page, and
\* they are fetching different players.
C17_Witness ==
    /\ calls[1].pc = "page" /\ calls[2].pc = "page"
    /\ locals[1].frame.sessions # <<>> /\ locals[2].frame.sessions # <<>>
    /\ locals[1].frame.url[1] # locals[2].frame.url[1]
    /\ locals[1].end_time # locals[2].end_time
    /\ Alone(1) # Alone(2)

----------------------------------------------------------------------------
(* C21 *)

\* s is the start of l and shorter
ProperPrefix(s, l) == Len(s) < Len(l) /\ s = SubSeq(l, 1, Len(s))

\* the latest fetch has ended on an answer that is not 200 and not retried
EndedInFailure ==
    /\ pc # "request"
    /\ http_log # <<>>
    /\ FinalFailure(http_log[Len(http_log)])

\* C21: a fetch that ends on a non-200 answer that is not retried returns the
\* empty list, also when pages were fetched before; what a fetch returns is
\* never some but not all of the player's records.
C21_FetchAllOrNothing ==
    /\ EndedInFailure => all_sessions[LogPlayer] = <<>>
    /\ \A p \in DOMAIN all_sessions :
           all_sessions[p] # <<>> => ~ProperPrefix(all_sessions[p], provider[p])

\* The first page was fetched, the request of the second page failed, and the
\* empty list was returned.
C21_Witness ==
    /\ EndedInFailure
    /\ Len(http_log) = 2
    /\ http_log[1].status = 200 /\ http_log[1].attempt = 1
    /\ http_log[2].status = 500 /\ http_log[2].url[2] = 2
    /\ Len(provider[LogPlayer]) = 2
    /\ all_sessions[LogPlayer] = <<>>

----------------------------------------------------------------------------
(* C30 *)

\* the first call of the latest fetch was answered 401 on a page after the first
RejectedOnLaterPage ==
    \E k \in DOMAIN http_log :
        /\ http_log[k].status = 401
        /\ http_log[k].attempt = 1
        /\ http_log[k].url[2] > 1

\* C30: after a 401 on a later page the retry starts at the first page with an
\* empty list, holds at every moment the records of the pages it has fetched
\* itself, and what it returns is the provider's list, each record once: the
\* records fetched before the 401 are not in it a second time.
C30_RetryStartsOver ==
    RejectedOnLaterPage =>
        /\ (pc = "request" /\ Len(http_log) > 0 /\ http_log[Len(http_log)].status = 401) =>
               /\ frame.sessions = <<>>
               /\ frame.url = <<LogPlayer, 1, Null>>
        /\ pc = "request" =>
               frame.sessions = SubSeq(provider[LogPlayer], 1, Len(frame.sessions))
        /\ (pc # "request" /\ http_log[Len(http_log)].status = 200) =>
               all_sessions[LogPlayer] = provider[LogPlayer]

\* Page 1 was fetched, page 2 was answered 401, the retry fetched both pages
\* and the two records were returned.
C30_Witness ==
    /\ pc = "fetch"
    /\ Len(http_log) = 4
    /\ http_log[1].status = 200 /\ http_log[1].attempt = 1
    /\ http_log[2].status = 401 /\ http_log[2].url[2] = 2
    /\ http_log[3].status = 200 /\ http_log[3].url[2] = 1 /\ http_log[3].attempt = 2
    /\ http_log[4].status = 200 /\ http_log[4].url[2] = 2
    /\ Len(all_sessions[LogPlayer]) = 2
    /\ all_sessions[LogPlayer] = provider[LogPlayer]

----------------------------------------------------------------------------
(* C22 *)

\* the lists that are permutations of l
Permutations(l) ==
    {m \in [DOMAIN l -> Range(l)] :
        \E f \in [DOMAIN l -> DOMAIN l] :
            /\ \A a \in DOMAIN l, b \in DOMAIN l : f[a] = f[b] => a = b
            /\ \A k \in DOMAIN l : m[k] = l[f[k]]}

\* C22: for the same fetched sessions, the list returned for any permutation
\* of the player list is set-equal to the list returned: the same keys, and
\* for every key the same set of participants.
C22_OrderOfPlayersIrrelevant ==
    pc = "done" =>
        \A m \in Permutations(player_ids) :
            AsSet(find_overlapping_sessions(m, provider, end_time))
                = AsSet(overlapping_sessions)

\* The keys alone do not depend on the order.
KeysIndependentOfOrder ==
    pc = "done" =>
        \A m \in Permutations(player_ids) :
            Keys(find_overlapping_sessions(m, provider, end_time))
                = Keys(overlapping_sessions)

----------------------------------------------------------------------------
(* C29 *)

PageInRange ==
    /\ Len(view.pages) >= 1
    /\ 0 <= view.current_page
    /\ view.current_page <= Len(view.pages) - 1

\* what the button handled by the step did to current_page
ButtonEffect ==
    (view' # view /\ view'.children = view.children) =>
        /\ view'.pressed = "rewind" => view'.current_page = 0
        /\ view'.pressed = "fast_forward" => view'.current_page = Len(view.pages) - 1
        /\ view'.pressed = "previous_page" =>
               view'.current_page = IF view.current_page = 0 THEN 0
                                    ELSE view.current_page - 1
        /\ view'.pressed = "next_page" =>
               view'.current_page = IF view.current_page = Len(view.pages) - 1
                                    THEN view.current_page
                                    ELSE view.current_page + 1
        /\ view'.pages = view.pages

\* C29: for a view with at least one page, after any presses of the four
\* buttons 0 <= current_page <= len(pages) - 1; previous_page on the first page
\* and next_page on the last page leave current_page as it is, rewind sets it
\* to 0 and fast_forward to len(pages) - 1.
C29_CurrentPageInRange == []PageInRange /\ [][ButtonEffect]_vars

\* previous_page was pressed on the first page of a view with several pages,
\* after the view had been turned.
C29_Witness ==
    /\ Len(view.pages) >= 3
    /\ view.pressed = "previous_page"
    /\ view.current_page = 0
    /\ view.shown = 0
    /\ view.children = Buttons
    /\ view.disabled \in {{}, {"rewind", "previous_page"}}

----------------------------------------------------------------------------
(* C23 *)

\* C23: for each player evaluated in a tick, a notification is sent if and
\* only if the observed online status differs from the stored one (first seen:
\* offline on server '0'); the stored status becomes the observed one only
\* after the notification was sent, and stays as it was otherwise.
C23_NotifiedIffStatusDiffers ==
    notice.id # "" =>
        /\ notice.sent <=> (notice.stored.online # (notice.observed # Offline))
        /\ notice.after = IF notice.sent
                          THEN [online |-> notice.observed # Offline,
                                serverid |-> server_id_or(notice.observed, "0")]
                          ELSE notice.stored

----------------------------------------------------------------------------
(* C24 *)

\* C24: after a tick in which the API request for a monitored player fails,
\* a later tick of monitor_loop runs.
C24_MonitoringKeepsRunning == (loop.last = "exited") ~> (loop.pc = "channel")

----------------------------------------------------------------------------
(* C25 *)

\* the last tick ended with no failed request and no failed send
TickCompleted == loop.pc = "idle" /\ loop.last = "completed"

\* C25 as stated: in a tick with no failure every player that was in the
\* monitored set at the start of the tick is evaluated in that tick.
C25_SetAtTickStartEvaluated == TickCompleted => loop.start_ids \subseteq loop.evaluated

\* C25: in a tick with no failure every player that is in the monitored set
\* when the iteration of line 560 begins (fetch_channel has returned) is
\* evaluated in that tick, and no other player is.
C25_SetAtIterationEvaluated == TickCompleted => loop.evaluated = loop.iter_ids

\* a tick completed for two players, one of them added by a command while the
\* tick was suspended at fetch_channel
C25_Witness ==
    /\ TickCompleted
    /\ loop.iter_ids = MonitoredIds
    /\ loop.evaluated = MonitoredIds
    /\ loop.start_ids # loop.iter_ids

----------------------------------------------------------------------------
(* C26 *)

\* the results of a search command for username that runs with no other
\* command and no failed request, from its k-th call of search_player on
RECURSIVE run_alone(_, _, _, _, _, _)
run_alone(username, k, page, seen, all_results, results) ==
    IF k > calls_of(username) THEN results
    ELSE LET r == scan(directory[page], 1, query(username, k), seen, all_results)
         IN  IF page < Len(directory) /\ Len(r.all_results) < result_limit
             THEN run_alone(username, k, page + 1, r.seen, r.all_results, results)
             ELSE run_alone(username, k + 1, 1, r.seen, <<>>, results \o r.all_results)

\* the step ends command c with no failed request
EndsWithResults(c) ==
    /\ searches[c].pc \in {"completed", "showing"}
    /\ searches'[c].pc = "done"

\* C26: a search command that started with seen_ids empty and ends with no
\* failed request has the results it would have when run alone, whatever
\* another search command does at its await points.
C26_ConcurrentSearchesAsAlone ==
    [][\A c \in Commands :
          EndsWithResults(c) /\ searches[c].clean_start =>
              searches[c].results \o searches[c].all_results
                  = run_alone(searches[c].username, 1, 1, {}, <<>>, <<>>)]_vars

----------------------------------------------------------------------------
(* C27 *)

\* no search command is in progress
Quiet == \A c \in Commands : searches[c].pc \in {"idle", "done"}

\* C27: whichever way the search commands have ended (results shown, no exact
\* matches, or a fetch error), seen_ids is empty when none is in progress, so
\* that the next command starts with it empty.
C27_SeenIdsEmptyBetweenSearches == Quiet => seen_ids = {}

----------------------------------------------------------------------------
(* C28 *)

\* the step is the failure of an HTTP request of command c
RequestFails(c) == searches[c].pc = "page" /\ searches'[c].pc = "done"

\* C28: when an HTTP request of search_player fails, search_player raises
\* nothing and returns ([], error), with and without an access token, and the
\* command reports the error and stops.
C28_FailedRequestReturnsError ==
    [][\A c \in Commands : RequestFails(c) => searches'[c].outcome = "error"]_vars

====
